---- MODULE Spec2Model ----
(***************************************************************************)
(* Model of the single-asset backtest engine, src/backtest/backtester.py.  *)
(*                                                                         *)
(* One Backtester instance (initial_capital, commission, results) and the  *)
(* locals of one call of run (df, cash, position, i).  The loop of run is  *)
(* split at its bars: Run_Start is lines 36-45, Run_Bar one iteration of   *)
(* lines 47-73, Run_Return lines 75-76.  The program is single-threaded,   *)
(* so nothing interleaves with a call.                                     *)
(*                                                                         *)
(* Python floats are modelled as exact rationals <<n, d>> in lowest terms  *)
(* with d > 0, so rounding error of IEEE doubles is outside this model.    *)
(***************************************************************************)
EXTENDS Integers, Sequences, FiniteSets, TLC

VARIABLES initial_capital, commission, results, pc, df, cash, position, i, error,
          call, ret, data, strategies, optimization_history

\* the metric call made last (src/backtest/evaluation.py) and its outcome
mvars == <<call, ret>>

\* the Backtester instance and the locals of its run
evars == <<initial_capital, commission, results, pc, df, cash, position, i, error>>

\* a StrategyOptimizer (src/ai/optimize_strategy.py): its data, the signals
\* the strategies given to it generate on that data, and its history
ovars == <<data, strategies, optimization_history>>

vars == <<initial_capital, commission, results, pc, df, cash, position, i, error,
          call, ret, data, strategies, optimization_history>>

(***************************************************************************)
(* Bounds and input domains.                                               *)
(***************************************************************************)
MaxBars == 3

\* longest portfolio-value series given to a metric
MaxSeries == 4

\* longest signal series given to calculate_win_rate
MaxTradeBars == 5

Signals == {-1, 0, 1}

Closes == {-10, 0, 10, 20}

Capitals == {-25, 0, 25}

Commissions == {<<0, 1>>, <<1, 10>>, <<2, 1>>}

(***************************************************************************)
(* Exact rational arithmetic standing for Python float arithmetic.         *)
(***************************************************************************)
Abs(n) == IF n < 0 THEN -n ELSE n

RECURSIVE GCD(_, _)
GCD(a, b) == IF b = 0 THEN a ELSE GCD(b, a % b)

Rat(n, d) ==
    LET g == GCD(Abs(n), d)
    IN  <<n \div g, d \div g>>

FromInt(k) == <<k, 1>>

Zero == <<0, 1>>

One == <<1, 1>>

RAdd(x, y) == Rat(x[1] * y[2] + y[1] * x[2], x[2] * y[2])

RSub(x, y) == Rat(x[1] * y[2] - y[1] * x[2], x[2] * y[2])

RMul(x, y) == Rat(x[1] * y[1], x[2] * y[2])

RDiv(x, y) ==
    IF y[1] > 0 THEN Rat(x[1] * y[2], x[2] * y[1])
                ELSE Rat(-(x[1] * y[2]), x[2] * (-y[1]))

RLt(x, y) == x[1] * y[2] < y[1] * x[2]

RLe(x, y) == x[1] * y[2] <= y[1] * x[2]

\* Python int(x) on a float: truncation toward zero.
PyInt(x) == IF x[1] >= 0 THEN x[1] \div x[2] ELSE -((-x[1]) \div x[2])

\* Mathematical floor, the rounding the specification names.
Floor(x) == x[1] \div x[2]

(***************************************************************************)
(* The arithmetic of one bar, lines 51-73 of backtester.py.                *)
(***************************************************************************)
None == "None"

\* no metric call yet
NoCall == [fn |-> "none"]

\* no outcome of a metric call yet
NoOutcome == [raised |-> "None", value |-> <<0, 0>>, formula |-> FALSE]

\* self.results: <<>> while it is None, <<frame>> once run stored a frame
NoResults == <<>>

Stored(frame) == <<frame>>

\* line 54: int((cash * (1 - self.commission)) / price)
SharesToBuy(c, price) ==
    PyInt(RDiv(RMul(c, RSub(One, commission)), price))

\* lines 55-59: cash -= (cost + commission_cost)
CashAfterBuyNoFee(c, shares, price) == RSub(c, RMul(FromInt(shares), price))

CashAfterBuy(c, shares, price) ==
    LET cost            == RMul(FromInt(shares), price)
        commission_cost == RMul(cost, commission)
    IN  RSub(c, RAdd(cost, commission_cost))

\* lines 64-67: cash += (revenue - commission_cost)
CashAfterSellNoFee(c, pos, price) == RAdd(c, RMul(FromInt(pos), price))

CashAfterSell(c, pos, price) ==
    LET revenue         == RMul(FromInt(pos), price)
        commission_cost == RMul(revenue, commission)
    IN  RAdd(c, RSub(revenue, commission_cost))

\* line 44: cash = self.initial_capital, whatever an earlier call left in it
StartCashCarried(left) == left

StartCash(left) == initial_capital

\* line 45: position = 0, whatever an earlier call left in it
StartPositionCarried(left) == left

StartPosition(left) == 0

\* line 47: range(1, len(df)), the first index the loop visits
LoopStartAtZero == 1 - 1

LoopStart == 1

\* line 52
IsBuyIgnoringPosition(signal, pos) == signal > 0

IsBuy(signal, pos) == signal > 0 /\ pos = 0

\* line 62
IsSell(signal, pos) == signal < 0 /\ pos > 0

\* lines 51-68: the cash and position after the bar
BarStep(c, pos, signal, price) ==
    IF IsBuy(signal, pos)
    THEN LET shares_to_buy == SharesToBuy(c, price)
         IN  [cash |-> CashAfterBuy(c, shares_to_buy, price), position |-> shares_to_buy]
    ELSE IF IsSell(signal, pos)
    THEN [cash |-> CashAfterSell(c, pos, price), position |-> 0]
    ELSE [cash |-> c, position |-> pos]

\* line 71
HoldingsValue(pos, price) == RMul(FromInt(pos), price)

\* line 73
TotalCashOnly(c, pos, price) == c

TotalValue(c, pos, price) == RAdd(c, RMul(FromInt(pos), price))

\* lines 71-73: df.loc[df.index[k], ...], the row of the frame the iteration
\* over index k writes (row k of the frame is df[k + 1]; the labels of the
\* index are unique, as src/utils/fetch.py line 213 leaves them, so the label
\* df.index[k] names that one row)
RowWrittenPrevious(k) == k

RowWritten(k) == k + 1

\* The exception the division of line 54 ends in when price is 0: a Python
\* float raises ZeroDivisionError, a numpy float64 yields inf or nan and the
\* int() around it raises OverflowError or ValueError.
ZeroPriceErrors(c) ==
    {"ZeroDivisionError"} \cup
    (IF RMul(c, RSub(One, commission)) = Zero THEN {"ValueError"} ELSE {"OverflowError"})

(***************************************************************************)
(* Inputs: the frame generate_signals returns, one row per bar.            *)
(***************************************************************************)
BarRows == [signal : Signals, close : {FromInt(p) : p \in Closes}]

Frames == UNION {[1..n -> BarRows] : n \in 0..MaxBars}

(***************************************************************************)
(* State machine.                                                          *)
(***************************************************************************)
TypeOK ==
    /\ initial_capital \in {FromInt(k) : k \in Capitals}
    /\ commission \in Commissions
    /\ pc \in {"idle", "loop", "returned", "raised"}
    /\ position \in Int
    /\ i \in 0..(MaxBars + 1)

\* Backtester.__init__
Init ==
    /\ initial_capital \in {FromInt(k) : k \in Capitals}
    /\ commission \in Commissions
    /\ results = NoResults
    /\ pc = "idle"
    /\ df = <<>>
    /\ cash = Zero
    /\ position = 0
    /\ i = 0
    /\ error = None
    /\ call = NoCall
    /\ ret = NoOutcome
    /\ data = <<>>
    /\ strategies = <<>>
    /\ optimization_history = <<>>

\* lines 37-42: the frame of generate_signals with the three ledger columns
NewFrame(frame) ==
    [k \in 1..Len(frame) |->
        [signal   |-> frame[k].signal,
         close    |-> frame[k].close,
         holdings |-> Zero,
         cash     |-> initial_capital,
         total    |-> initial_capital]]

\* the signal and close columns of a frame, the input of a run
InputOf(frame) ==
    [k \in 1..Len(frame) |-> [signal |-> frame[k].signal, close |-> frame[k].close]]

\* lines 36-45 on one of the given frames, entering the loop of line 47
Run_Enter(frames) ==
    /\ \E frame \in frames : df' = NewFrame(frame)
    /\ cash' = StartCash(cash)
    /\ position' = StartPosition(position)
    /\ i' = LoopStart
    /\ pc' = "loop"
    /\ UNCHANGED <<initial_capital, commission, results, error, mvars, ovars>>

\* run, first call on the instance
Run_Start ==
    /\ pc = "idle"
    /\ results = NoResults
    /\ Run_Enter(Frames)

\* run called again on the instance with the data of the completed call
Run_Again ==
    /\ pc = "returned"
    /\ results # NoResults
    /\ Run_Enter({InputOf(results[1])})

\* one iteration of the loop, lines 47-73 (row i of the frame is df[i + 1])
Run_Bar ==
    /\ pc = "loop"
    /\ i < Len(df)
    /\ LET signal == df[i + 1].signal
           price  == df[i + 1].close
           after  == BarStep(cash, position, signal, price)
       IN  /\ ~(IsBuy(signal, position) /\ price = Zero)
           /\ cash' = after.cash
           /\ position' = after.position
           /\ df' = [df EXCEPT ![RowWritten(i)].holdings = HoldingsValue(after.position, price),
                               ![RowWritten(i)].cash     = after.cash,
                               ![RowWritten(i)].total    = TotalValue(after.cash, after.position, price)]
    /\ i' = i + 1
    /\ UNCHANGED <<initial_capital, commission, results, pc, error, mvars, ovars>>

\* line 54 dividing by a zero price: the call ends in an exception
Run_BarRaises ==
    /\ pc = "loop"
    /\ i < Len(df)
    /\ IsBuy(df[i + 1].signal, position)
    /\ df[i + 1].close = Zero
    /\ error' \in ZeroPriceErrors(cash)
    /\ pc' = "raised"
    /\ UNCHANGED <<initial_capital, commission, results, df, cash, position, i, mvars, ovars>>

\* lines 75-76
Run_Return ==
    /\ pc = "loop"
    /\ i >= Len(df)
    /\ results' = Stored(df)
    /\ pc' = "returned"
    /\ UNCHANGED <<initial_capital, commission, df, cash, position, i, error, mvars, ovars>>

Next == Run_Start \/ Run_Bar \/ Run_BarRaises \/ Run_Return

Spec == Init /\ [][Next]_vars

(***************************************************************************)
(* The same instance run twice on the same data.                           *)
(***************************************************************************)
NextTwice == Run_Start \/ Run_Bar \/ Run_BarRaises \/ Run_Return \/ Run_Again

SpecTwice == Init /\ [][NextTwice]_vars

(***************************************************************************)
(* The scenario of section 8: closes 100, 110, 90, 120 (or a prefix of     *)
(* them) under any signals, initial_capital 1000, commission 0 or 0.01.    *)
(***************************************************************************)
ScenarioCloses == <<100, 110, 90, 120>>

ScenarioSignals == <<0, 1, -1, 0>>

ScenarioCommissions == {<<0, 1>>, <<1, 100>>}

ScenarioFrames ==
    UNION {[1..n -> Signals] : n \in 0..Len(ScenarioCloses)}

InitScenario ==
    /\ initial_capital = FromInt(1000)
    /\ commission \in ScenarioCommissions
    /\ results = NoResults
    /\ pc = "idle"
    /\ df = <<>>
    /\ cash = Zero
    /\ position = 0
    /\ i = 0
    /\ error = None
    /\ call = NoCall
    /\ ret = NoOutcome
    /\ data = <<>>
    /\ strategies = <<>>
    /\ optimization_history = <<>>

\* the frames of the scenario: its closes under the signals sig
ScenarioInputs ==
    {[k \in 1..Len(sig) |-> [signal |-> sig[k], close |-> FromInt(ScenarioCloses[k])]] :
        sig \in ScenarioFrames}

Run_StartScenario ==
    /\ pc = "idle"
    /\ results = NoResults
    /\ Run_Enter(ScenarioInputs)

\* every close of the scenario is positive, so line 54 never divides by 0
NextScenario == Run_StartScenario \/ Run_Bar \/ Run_Return

SpecScenario == InitScenario /\ [][NextScenario]_vars

(***************************************************************************)
(* One instance reused: run called again, on any frame of the scenario,    *)
(* after a call that returned.                                             *)
(***************************************************************************)
Run_AgainScenario ==
    /\ pc = "returned"
    /\ results # NoResults
    /\ Run_Enter(ScenarioInputs)

NextReuse == Run_StartScenario \/ Run_Bar \/ Run_Return \/ Run_AgainScenario

SpecReuse == InitScenario /\ [][NextReuse]_vars

(***************************************************************************)
(* Floats beyond the rationals: nan and the infinities, marked by a zero   *)
(* denominator, with the IEEE rules numpy and pandas apply to them.        *)
(* Uncomputed stands for a float whose value this model does not compute   *)
(* (a power or a square root).                                             *)
(***************************************************************************)
NaN == <<0, 0>>

PosInf == <<1, 0>>

NegInf == <<-1, 0>>

Uncomputed == <<0, -1>>

IsNaN(x) == x = NaN

IsFinite(x) == x[2] > 0

FNeg(x) == <<-x[1], x[2]>>

FAdd(x, y) ==
    IF IsNaN(x) \/ IsNaN(y) THEN NaN
    ELSE IF IsFinite(x) /\ IsFinite(y) THEN RAdd(x, y)
    ELSE IF IsFinite(y) THEN x
    ELSE IF IsFinite(x) THEN y
    ELSE IF x = y THEN x ELSE NaN

FSub(x, y) == FAdd(x, FNeg(y))

\* float division of finite operands: x / 0 is nan for x = 0, else +-inf
FDiv(x, y) ==
    IF IsNaN(x) \/ IsNaN(y) THEN NaN
    ELSE IF IsFinite(x) /\ IsFinite(y)
    THEN IF y[1] = 0
         THEN (IF x[1] = 0 THEN NaN ELSE IF x[1] > 0 THEN PosInf ELSE NegInf)
         ELSE RDiv(x, y)
    ELSE IF IsFinite(y) THEN (IF y[1] >= 0 THEN x ELSE FNeg(x))
    ELSE IF IsFinite(x) THEN Zero
    ELSE NaN

FMul(x, y) ==
    IF IsNaN(x) \/ IsNaN(y) THEN NaN
    ELSE IF IsFinite(x) /\ IsFinite(y) THEN RMul(x, y)
    ELSE IF x[1] = 0 \/ y[1] = 0 THEN NaN
    ELSE IF (x[1] > 0) = (y[1] > 0) THEN PosInf ELSE NegInf

\* comparisons: every comparison with nan is false
FLt(x, y) ==
    IF IsNaN(x) \/ IsNaN(y) THEN FALSE
    ELSE IF IsFinite(x) /\ IsFinite(y) THEN RLt(x, y)
    ELSE IF x = y THEN FALSE
    ELSE x = NegInf \/ y = PosInf

FLe(x, y) ==
    IF IsNaN(x) \/ IsNaN(y) THEN FALSE
    ELSE x = y \/ FLt(x, y)

(***************************************************************************)
(* src/backtest/evaluation.py and Backtester.get_returns.                  *)
(***************************************************************************)
\* the outcome of a call: the value returned, or the exception raised
Returned(v) == [raised |-> None, value |-> v, formula |-> FALSE]

\* the value of the closing formula of a function (cagr line 48, sharpe line 70)
Computed(v) == [raised |-> None, value |-> v, formula |-> TRUE]

Raised(e) == [raised |-> e, value |-> NaN, formula |-> FALSE]

\* Series.cummax of a series of finite values
CumMax(pv) ==
    [k \in 1..Len(pv) |->
        CHOOSE m \in {pv[j] : j \in 1..k} : \A j \in 1..k : RLe(pv[j], m)]

\* Series.min: nan entries are skipped, nan when nothing is left
SeriesMin(xs) ==
    LET vals == {xs[k] : k \in {j \in 1..Len(xs) : ~IsNaN(xs[j])}}
    IN  IF vals = {} THEN NaN
        ELSE CHOOSE m \in vals : \A v \in vals : FLe(m, v)

\* calculate_max_drawdown, lines 20-24
Drawdown(pv) ==
    LET cummax == CumMax(pv)
    IN  [k \in 1..Len(pv) |-> FDiv(FSub(pv[k], cummax[k]), cummax[k])]

calculate_max_drawdown(pv) == Returned(SeriesMin(Drawdown(pv)))

\* calculate_cagr, line 45
CagrGuardStrict(initial_value, years) == RLt(initial_value, Zero) \/ RLt(years, Zero)

CagrGuard(initial_value, years) == RLe(initial_value, Zero) \/ RLe(years, Zero)

\* calculate_cagr, lines 38-50; years = None is the default argument.
\* iloc[0] of an empty series raises IndexError.
calculate_cagr(pv, years_arg) ==
    LET years == IF years_arg = None THEN Rat(Len(pv), 252) ELSE years_arg
    IN  IF Len(pv) = 0 THEN Raised("IndexError")
        ELSE IF CagrGuard(pv[1], years) THEN Returned(Zero)
        ELSE Computed(Uncomputed)

\* Backtester.get_returns, lines 86-88: Series.pct_change
PctChange(pv) ==
    [k \in 1..Len(pv) |-> IF k = 1 THEN NaN ELSE FSub(FDiv(pv[k], pv[k - 1]), One)]

\* Series.std (ddof = 1, nan skipped) as far as the code looks at it:
\* nan with fewer than two values or with an infinity among them, zero when
\* all values are equal, positive otherwise
StdKind(xs) ==
    LET idx == {j \in 1..Len(xs) : ~IsNaN(xs[j])}
    IN  IF Cardinality(idx) - 1 <= 0 THEN "nan"
        ELSE IF \E j \in idx : ~IsFinite(xs[j]) THEN "nan"
        ELSE IF \A j, k \in idx : xs[j] = xs[k] THEN "zero"
        ELSE "positive"

\* calculate_sharpe_ratio, default risk_free_rate = 0.02, over 252 days
RiskFreeRate == Rat(2, 100)

\* line 67: excess_returns.std() == 0
StdIsZero(kind) == kind = "zero"

\* calculate_sharpe_ratio, lines 65-72
calculate_sharpe_ratio(returns) ==
    LET excess_returns ==
            [k \in 1..Len(returns) |-> FSub(returns[k], RDiv(RiskFreeRate, FromInt(252)))]
        std == StdKind(excess_returns)
    IN  IF StdIsZero(std) THEN Returned(Zero)
        ELSE IF std = "nan" THEN Computed(NaN)
        ELSE Computed(Uncomputed)

\* line 153: returns.std() * np.sqrt(252) * 100
Volatility(returns) ==
    LET std == StdKind(returns)
    IN  IF std = "zero" THEN Zero ELSE IF std = "nan" THEN NaN ELSE Uncomputed

\* line 102 and line 104 of calculate_win_rate
OpensTrade(signal) == signal > 0

ClosesTradeAlways(signal, pos) == signal < 0

ClosesTrade(signal, pos) == signal < 0 /\ pos > 0

\* calculate_win_rate, lines 99-108: the windows <<entry, exit>> (0-based)
\* of the trades whose return is appended; position is the entry index,
\* 0 while not in a trade
RECURSIVE ScanTrades(_, _, _, _)
ScanTrades(signals, k, pos, acc) ==
    IF k >= Len(signals) THEN acc
    ELSE IF OpensTrade(signals[k + 1]) THEN ScanTrades(signals, k + 1, k, acc)
    ELSE IF ClosesTrade(signals[k + 1], pos)
         THEN ScanTrades(signals, k + 1, 0, Append(acc, <<pos, k>>))
    ELSE ScanTrades(signals, k + 1, pos, acc)

\* Series.sum of returns.iloc[from : to + 1]: nan entries are skipped
RECURSIVE SumSkipNa(_, _, _)
SumSkipNa(xs, from, to) ==
    IF from > to \/ from >= Len(xs) THEN Zero
    ELSE LET rest == SumSkipNa(xs, from + 1, to)
         IN  IF IsNaN(xs[from + 1]) THEN rest ELSE FAdd(xs[from + 1], rest)

\* line 106
TradeReturns(signals, returns) ==
    LET windows == ScanTrades(signals, 0, 0, <<>>)
    IN  [t \in 1..Len(windows) |-> SumSkipNa(returns, windows[t][1], windows[t][2])]

NoTrades ==
    [total_trades |-> 0, winning_trades |-> 0, losing_trades |-> 0, win_rate |-> Zero]

\* line 118 and line 119
IsWin(r) == FLt(Zero, r)

IsLoss(r) == FLe(r, Zero)

\* calculate_win_rate, lines 86-127
calculate_win_rate(signals, returns) ==
    LET trade_returns  == TradeReturns(signals, returns)
        winning_trades == Cardinality({t \in 1..Len(trade_returns) : IsWin(trade_returns[t])})
        losing_trades  == Cardinality({t \in 1..Len(trade_returns) : IsLoss(trade_returns[t])})
    IN  IF \A k \in 1..Len(signals) : signals[k] = 0 THEN Returned(NoTrades)
        ELSE IF Len(trade_returns) = 0 THEN Returned(NoTrades)
        ELSE Returned([total_trades   |-> Len(trade_returns),
                       winning_trades |-> winning_trades,
                       losing_trades  |-> losing_trades,
                       win_rate       |-> Rat(winning_trades * 100, Len(trade_returns))])

\* calculate_metrics, lines 143-156; iloc[-1] of an empty series raises
\* IndexError
calculate_metrics(pv, returns, capital) ==
    IF Len(pv) = 0 THEN Raised("IndexError")
    ELSE LET final_value  == pv[Len(pv)]
             total_return == FMul(FDiv(FSub(final_value, capital), capital), FromInt(100))
         IN  Returned([initial_capital |-> capital,
                       final_value     |-> final_value,
                       total_return    |-> total_return,
                       max_drawdown    |-> FMul(calculate_max_drawdown(pv).value, FromInt(100)),
                       cagr            |-> calculate_cagr(pv, None).value,
                       sharpe_ratio    |-> calculate_sharpe_ratio(returns).value,
                       volatility      |-> Volatility(returns)])

(***************************************************************************)
(* Calls of the metric functions on bounded series.  The functions keep no *)
(* state, so a behaviour is one call.                                      *)
(***************************************************************************)
Values == {FromInt(v) : v \in {-10, 0, 90, 100, 120, 130}}

Series == UNION {[1..n -> Values] : n \in 0..MaxSeries}

YearsArgs == {None, FromInt(-1), Zero, FromInt(1)}

\* returns as pct_change yields them: nan first, then finite or infinite
ReturnValues == {Rat(-1, 10), Rat(1, 10), PosInf, NegInf}

SignalSeries == UNION {[1..n -> Signals] : n \in 0..MaxTradeBars}

\* the returns aligned with n signals
ReturnSeries(n) ==
    {[k \in 1..n |-> IF k = 1 THEN NaN ELSE tail[k]] : tail \in [2..n -> ReturnValues]}

MetricCapitals == {Zero, FromInt(100)}

InitMetrics ==
    /\ initial_capital = FromInt(100)
    /\ commission = Zero
    /\ results = NoResults
    /\ pc = "idle"
    /\ df = <<>>
    /\ cash = Zero
    /\ position = 0
    /\ i = 0
    /\ error = None
    /\ call = NoCall
    /\ ret = NoOutcome
    /\ data = <<>>
    /\ strategies = <<>>
    /\ optimization_history = <<>>

CanCall == call.fn = "none"

Call_MaxDrawdown ==
    /\ CanCall
    /\ \E pv \in Series :
          /\ call' = [fn |-> "calculate_max_drawdown", portfolio_value |-> pv]
          /\ ret' = calculate_max_drawdown(pv)
    /\ UNCHANGED <<evars, ovars>>

Call_Cagr ==
    /\ CanCall
    /\ \E pv \in Series, years \in YearsArgs :
          /\ call' = [fn |-> "calculate_cagr", portfolio_value |-> pv, years |-> years]
          /\ ret' = calculate_cagr(pv, years)
    /\ UNCHANGED <<evars, ovars>>

\* calculate_sharpe_ratio on the returns get_returns derives from a ledger
Call_Sharpe ==
    /\ CanCall
    /\ \E pv \in Series :
          /\ call' = [fn |-> "calculate_sharpe_ratio", portfolio_value |-> pv,
                      returns |-> PctChange(pv)]
          /\ ret' = calculate_sharpe_ratio(PctChange(pv))
    /\ UNCHANGED <<evars, ovars>>

Call_WinRate ==
    /\ CanCall
    /\ \E signals \in SignalSeries :
          \E returns \in ReturnSeries(Len(signals)) :
              /\ call' = [fn |-> "calculate_win_rate", signals |-> signals, returns |-> returns]
              /\ ret' = calculate_win_rate(signals, returns)
    /\ UNCHANGED <<evars, ovars>>

\* calculate_metrics as Backtester.summary calls it, lines 102-105
Call_Metrics ==
    /\ CanCall
    /\ \E pv \in Series, capital \in MetricCapitals :
          /\ call' = [fn |-> "calculate_metrics", portfolio_value |-> pv,
                      initial_capital |-> capital]
          /\ ret' = calculate_metrics(pv, PctChange(pv), capital)
    /\ UNCHANGED <<evars, ovars>>

NextMetrics == Call_MaxDrawdown \/ Call_Cagr \/ Call_Sharpe \/ Call_WinRate \/ Call_Metrics

SpecMetrics == InitMetrics /\ [][NextMetrics]_vars

(***************************************************************************)
(* StrategyOptimizer, src/ai/optimize_strategy.py.  The Backtester of the  *)
(* model is the one evaluate_strategy constructs at line 37, with the      *)
(* optimizer's initial_capital and the default commission; its run is the  *)
(* loop above, bar by bar.  grid_search calls evaluate_strategy once per   *)
(* parameter combination, so its calls are among the orders modelled.      *)
(***************************************************************************)
\* most evaluate_strategy calls on one optimizer
MaxEvaluations == 2

\* Backtester.__init__, line 13: commission = 0.001425
DefaultCommission == Rat(1425, 1000000)

\* self.data: the closes of a price history of up to MaxBars bars, every
\* bar closing at 10, so that a trade changes the total value by its fee alone
OptimizerData == {[k \in 1..n |-> FromInt(10)] : n \in 0..MaxBars}

\* the parameter combinations strategies are built from
Parameters == {"p1", "p2"}

\* StrategyOptimizer.__init__, lines 23-25
InitOptimizer ==
    /\ initial_capital = FromInt(25)
    /\ commission = DefaultCommission
    /\ results = NoResults
    /\ pc = "idle"
    /\ df = <<>>
    /\ cash = Zero
    /\ position = 0
    /\ i = 0
    /\ error = None
    /\ call = NoCall
    /\ ret = NoOutcome
    /\ data \in OptimizerData
    /\ strategies \in [Parameters -> [1..Len(data) -> Signals]]
    /\ optimization_history = <<>>

\* strategy.generate_signals(data.copy()), line 37 of backtester.py
GenerateSignals(params) ==
    [k \in 1..Len(data) |-> [signal |-> strategies[params][k], close |-> data[k]]]

\* evaluate_strategy, lines 37-38 up to the loop of run: a new Backtester
\* (results None) runs the strategy on self.data
Evaluate_Start ==
    /\ pc = "idle"
    /\ Len(optimization_history) < MaxEvaluations
    /\ \E params \in Parameters :
          /\ call' = [fn |-> "evaluate_strategy", parameters |-> params]
          /\ df' = NewFrame(GenerateSignals(params))
    /\ results' = NoResults
    /\ cash' = StartCash(cash)
    /\ position' = StartPosition(position)
    /\ i' = LoopStart
    /\ pc' = "loop"
    /\ ret' = NoOutcome
    /\ UNCHANGED <<initial_capital, commission, error, ovars>>

\* Backtester.get_portfolio_value, lines 80-82
PortfolioValue(res) == [k \in 1..Len(res[1]) |-> res[1][k].total]

\* Backtester.summary, lines 102-107
Summary(res) ==
    calculate_metrics(PortfolioValue(res), PctChange(PortfolioValue(res)), initial_capital)

\* evaluate_strategy, lines 39-48: the summary of the run is appended to the
\* history; an exception of summary leaves the history as it was
Evaluate_Finish ==
    /\ pc = "returned"
    /\ call.fn = "evaluate_strategy"
    /\ LET metrics == Summary(results)
       IN  /\ ret' = metrics
           /\ IF metrics.raised # None
              THEN /\ error' = metrics.raised
                   /\ UNCHANGED optimization_history
              ELSE /\ optimization_history' =
                         Append(optimization_history,
                                [strategy_name |-> "Strategy",
                                 parameters    |-> call.parameters,
                                 metrics       |-> metrics.value])
                   /\ UNCHANGED error
    /\ call' = NoCall
    /\ pc' = "idle"
    /\ UNCHANGED <<initial_capital, commission, results, df, cash, position, i,
                   data, strategies>>

NextOptimizer == Evaluate_Start \/ Run_Bar \/ Run_Return \/ Evaluate_Finish

SpecOptimizer == InitOptimizer /\ [][NextOptimizer]_vars

(***************************************************************************)
(* Vocabulary of the claims.                                               *)
(***************************************************************************)
\* the call is past line 45: the frame and the locals exist
InRun == pc \in {"loop", "returned", "raised"}

\* the step is one iteration of the loop over row i
BarProcessed == pc = "loop" /\ i < Len(df) /\ pc' = "loop" /\ i' = i + 1

\* the loop stands at row i and has not ended
AtBar == pc = "loop" /\ i < Len(df)

\* input the specification calls malformed: empty, or a close price <= 0
\* (signal and close are columns of one frame, so their lengths agree)
Malformed(frame) == Len(frame) = 0 \/ \E k \in 1..Len(frame) : RLe(frame[k].close, Zero)

\* C1: every ledger entry has total_value = cash + holdings_value, and the
\* entry of the bar processed last has holdings_value = quantity * close and
\* the cash of the engine (bar 0 included, where the quantity is 0).
C1_LedgerIdentity ==
    InRun =>
      /\ \A k \in 1..Len(df) : df[k].total = RAdd(df[k].cash, df[k].holdings)
      /\ (i >= 1 /\ i <= Len(df)) =>
            /\ df[i].holdings = RMul(FromInt(position), df[i].close)
            /\ df[i].cash = cash
            /\ (position = 0 => df[i].holdings = Zero)

\* a completed run that bought, held over a bar and ended flat after a Sell
C1_Witness ==
    /\ pc = "returned"
    /\ ~Malformed(df)
    /\ initial_capital = FromInt(25)
    /\ commission = <<1, 10>>
    /\ Len(df) = 3
    /\ df[2].holdings # Zero
    /\ df[3].holdings = Zero
    /\ df[3].cash # initial_capital

\* C2: with initial_capital >= 0 the cash is >= 0 at every ledger entry,
\* for any signals, any prices and any commission rate.
C2_CashNeverNegative ==
    (InRun /\ RLe(Zero, initial_capital)) =>
      /\ RLe(Zero, cash)
      /\ \A k \in 1..Len(df) : RLe(Zero, df[k].cash)

\* C3: the held quantity is 0 or a positive integer at every step of a run.
C3_QuantityNatural == position \in Nat

\* C4: bar 0 is never traded: entry 0 is the initial state whatever signal[0]
\* is, the quantity is still 0 when bar 1 is processed, and a series of
\* length 1 yields a ledger of length 1 equal to the initial state.
C4_BarZeroNotTraded ==
    InRun =>
      /\ i >= 1
      /\ Len(df) >= 1 =>
            /\ df[1].cash = initial_capital
            /\ df[1].holdings = Zero
            /\ df[1].total = initial_capital
      /\ i = 1 => (position = 0 /\ cash = initial_capital)
      /\ (pc = "returned" /\ Len(df) = 1) =>
            /\ results = Stored(df)
            /\ Len(results[1]) = 1
            /\ results[1][1].cash = initial_capital
            /\ results[1][1].holdings = Zero
            /\ results[1][1].total = initial_capital

\* a completed run whose bar 0 carried a Buy signal and whose bar 1 bought
C4_Witness ==
    /\ pc = "returned"
    /\ ~Malformed(df)
    /\ initial_capital = FromInt(25)
    /\ Len(df) >= 2
    /\ df[1].signal > 0
    /\ df[2].signal > 0
    /\ df[2].holdings # Zero

\* C5: at a bar with signal > 0 and quantity 0 the engine computes
\* shares = floor(cash * (1 - commission) / close) and, only if shares >= 1,
\* sets quantity = shares and takes shares * close * (1 + commission) from
\* the cash; no other bar increases the quantity.
C5_EntryRule ==
    [][BarProcessed =>
        LET signal == df[i + 1].signal
            close  == df[i + 1].close
            shares == Floor(RDiv(RMul(cash, RSub(One, commission)), close))
        IN  IF signal > 0 /\ position = 0
            THEN IF shares >= 1
                 THEN /\ position' = shares
                      /\ cash' = RSub(cash, RMul(RMul(FromInt(shares), close),
                                                 RAdd(One, commission)))
                 ELSE position' = position /\ cash' = cash
            ELSE position' <= position]_vars

\* C6: a Buy signal at a bar where cash * (1 - commission) < close changes
\* neither cash nor quantity, raises no error, and the run goes on.
C6_InsufficientCashBuy ==
    [][(AtBar /\ df[i + 1].signal > 0
              /\ RLt(RMul(cash, RSub(One, commission)), df[i + 1].close)) =>
        (pc' = "loop" /\ i' = i + 1 /\ cash' = cash /\ position' = position)]_vars

\* C7: at a bar with signal < 0 and quantity > 0 the engine sells all:
\* cash grows by quantity * close * (1 - commission) and the quantity
\* becomes 0; no other bar decreases the quantity.
C7_ExitRule ==
    [][BarProcessed =>
        LET signal == df[i + 1].signal
            close  == df[i + 1].close
        IN  IF signal < 0 /\ position > 0
            THEN /\ position' = 0
                 /\ cash' = RAdd(cash, RMul(RMul(FromInt(position), close),
                                            RSub(One, commission)))
            ELSE position' >= position]_vars

\* C8: a bar whose signal is Hold, Buy while holding, or Sell while flat
\* leaves cash and quantity unchanged, and a bar changes cash or quantity
\* only because of its own signal: Buy while flat or Sell while holding.
C8_IgnoredSignalsAreNoOps ==
    [][BarProcessed =>
        LET signal == df[i + 1].signal
        IN  /\ (signal = 0 \/ (signal > 0 /\ position # 0) \/ (signal < 0 /\ position = 0))
                  => (cash' = cash /\ position' = position)
            /\ (cash' # cash \/ position' # position)
                  => ((signal > 0 /\ position = 0) \/ (signal < 0 /\ position # 0))]_vars

\* a completed run that ignored a Sell while flat at bar 1, ignored a Buy
\* while holding at bar 3, and traded at bar 2 on bar 2's own Buy signal
C8_Witness ==
    /\ pc = "returned"
    /\ ~Malformed(df)
    /\ initial_capital = FromInt(25)
    /\ Len(df) >= 3
    /\ df[2].signal < 0
    /\ df[2].cash = initial_capital
    /\ df[2].holdings = Zero
    /\ df[3].signal > 0
    /\ df[3].holdings # Zero

\* C9: run fails with InputError whenever the series are empty or a close
\* price is <= 0, whatever the signals are.
C9_MalformedInputRaisesInputError ==
    (InRun /\ Malformed(df)) => (pc # "returned" /\ (pc = "raised" => error = "InputError"))

\* C10: a run on malformed input fails before any bar is processed, returns
\* no ledger, and leaves the stored results as they were before the call.
C10_MalformedInputAllOrNothing ==
    (InRun /\ Malformed(df)) =>
      /\ i = LoopStart
      /\ cash = initial_capital
      /\ position = 0
      /\ results = NoResults

\* C11: a run repeated with identical inputs (signals, prices,
\* initial_capital, commission) yields the ledger of the first run: every
\* entry's cash, holdings_value and total_value are equal.
C11_RepeatedRunSameLedger ==
    [][(pc = "loop" /\ pc' = "returned" /\ results # NoResults
          /\ InputOf(df) = InputOf(results[1]))
        => (results' = results
            /\ \A k \in 1..Len(df) :
                  /\ df[k].cash = results[1][k].cash
                  /\ df[k].holdings = results[1][k].holdings
                  /\ df[k].total = results[1][k].total)]_vars

\* the second run is about to return, and the first one ended holding shares
\* after a round trip or a buy
C11_Witness ==
    /\ pc = "loop"
    /\ i >= Len(df)
    /\ results # NoResults
    /\ Len(df) = 3
    /\ position > 0
    /\ initial_capital = FromInt(25)
    /\ ~Malformed(df)

\* the scenario frame: closes 100, 110, 90, 120 with signals 0, +1, -1, 0
IsScenario ==
    /\ pc = "returned"
    /\ Len(df) = Len(ScenarioCloses)
    /\ \A k \in 1..Len(df) : df[k].signal = ScenarioSignals[k]

\* C12 as stated: on the scenario frame with initial_capital 1000, commission
\* 0 buys 9 shares (cash 10), sells them (cash 820) and ends at total 820;
\* commission 0.01 buys 8 shares (cash 111.2), sells them (cash 824.0) and
\* ends at total 824.0.
C12_ScenarioAsStated ==
    IsScenario =>
      /\ commission = Zero =>
            /\ df[2].holdings = FromInt(9 * 110) /\ df[2].cash = FromInt(10)
            /\ df[3].holdings = Zero /\ df[3].cash = FromInt(820)
            /\ df[4].total = FromInt(820)
      /\ commission = Rat(1, 100) =>
            /\ df[2].holdings = FromInt(8 * 110) /\ df[2].cash = Rat(1112, 10)
            /\ df[3].holdings = Zero /\ df[3].cash = FromInt(824)
            /\ df[4].total = FromInt(824)

\* C12 amended: commission 0 as stated; commission 0.01 buys
\* int(1000 * 0.99 / 110) = 9 shares (cash 0.1), sells them (cash 802.0)
\* and ends at total 802.0.
C12_Scenario ==
    IsScenario =>
      /\ commission = Zero =>
            /\ df[2].holdings = FromInt(9 * 110) /\ df[2].cash = FromInt(10)
            /\ df[3].holdings = Zero /\ df[3].cash = FromInt(820)
            /\ df[4].total = FromInt(820)
      /\ commission = Rat(1, 100) =>
            /\ df[2].holdings = FromInt(9 * 110) /\ df[2].cash = Rat(1, 10)
            /\ df[3].holdings = Zero /\ df[3].cash = FromInt(802)
            /\ df[4].total = FromInt(802)

\* the scenario run completed under commission 0.01
C12_Witness == IsScenario /\ commission = Rat(1, 100) /\ results = Stored(df)

\* the metric call made is a call of fn
Called(fn) == call.fn = fn

\* the drawdown of entry k as the specification defines it: (tv[k] - M[k]) / M[k]
\* with M[k] the maximum of tv[1..k]
SpecDrawdown(tv, k) ==
    LET M == CHOOSE m \in {tv[j] : j \in 1..k} : \A j \in 1..k : RLe(tv[j], m)
    IN  FDiv(FSub(tv[k], M), M)

\* C13: calculate_max_drawdown returns the minimum over i of
\* (total_value[i] - M[i]) / M[i], which is <= 0, is 0 for a one-entry ledger
\* and is -0.25 for total_value [100, 120, 90, 130].
C13_MaxDrawdown ==
    (Called("calculate_max_drawdown") /\ Len(call.portfolio_value) >= 1) =>
      LET tv == call.portfolio_value
      IN  /\ ret.raised = None
          /\ \E k \in 1..Len(tv) : ret.value = SpecDrawdown(tv, k)
          /\ \A k \in 1..Len(tv) : FLe(ret.value, SpecDrawdown(tv, k))
          /\ FLe(ret.value, Zero)
          /\ Len(tv) = 1 => ret.value = Zero
          /\ tv = <<FromInt(100), FromInt(120), FromInt(90), FromInt(130)>>
                => ret.value = Rat(-1, 4)

\* the years calculate_cagr works with
YearsOf(c) == IF c.years = None THEN Rat(Len(c.portfolio_value), 252) ELSE c.years

\* C14 as stated: calculate_cagr returns exactly 0, raises nothing and does
\* not reach its division and power whenever the first value is <= 0 or
\* years <= 0, years defaulting to len(ledger) / 252.
C14_CagrGuardAsStated ==
    (Called("calculate_cagr")
       /\ (RLe(YearsOf(call), Zero)
           \/ (Len(call.portfolio_value) >= 1 /\ RLe(call.portfolio_value[1], Zero))))
    => (ret.raised = None /\ ret.value = Zero /\ ~ret.formula)

\* C14 amended: the same for a non-empty series (years <= 0 then only when
\* supplied); on an empty series the call raises.
C14_CagrGuard ==
    Called("calculate_cagr") =>
      /\ (Len(call.portfolio_value) >= 1
            /\ (RLe(YearsOf(call), Zero) \/ RLe(call.portfolio_value[1], Zero)))
         => (ret.raised = None /\ ret.value = Zero /\ ~ret.formula)
      /\ Len(call.portfolio_value) = 0 => ret.raised # None

\* calculate_cagr returned 0 for a ledger that starts at 0 and has years > 0
C14_Witness ==
    /\ Called("calculate_cagr")
    /\ Len(call.portfolio_value) >= 2
    /\ call.portfolio_value[1] = Zero
    /\ call.years = None
    /\ ret.value = Zero
    /\ ~ret.formula

\* a series all of whose entries are equal
IsConstant(xs) == \A j, k \in 1..Len(xs) : xs[j] = xs[k]

\* C15: the Sharpe ratio is exactly 0, not nan and not an error, for every
\* constant total_value series and for every two-point series.
C15_SharpeZeroFallback ==
    (Called("calculate_sharpe_ratio")
       /\ Len(call.portfolio_value) >= 1
       /\ (IsConstant(call.portfolio_value) \/ Len(call.portfolio_value) = 2))
    => (ret.raised = None /\ ret.value = Zero)

\* C16: calculate_win_rate counts only completed trades: every counted trade
\* runs from a Buy signal to a later Sell signal, a Buy never followed by a
\* Sell is not counted, and without any Buy-then-Sell pair all four results
\* are 0.
C16_OnlyCompletedTrades ==
    Called("calculate_win_rate") =>
      LET sig     == call.signals
          windows == ScanTrades(sig, 0, 0, <<>>)
      IN  /\ ret.raised = None
          /\ ret.value.total_trades = Len(windows)
          /\ \A t \in 1..Len(windows) :
                /\ windows[t][1] < windows[t][2]
                /\ sig[windows[t][1] + 1] > 0
                /\ sig[windows[t][2] + 1] < 0
          /\ \A t, u \in 1..Len(windows) : t < u => windows[t][2] < windows[u][1]
          /\ ret.value.total_trades <=
                Cardinality({k \in 1..Len(sig) : sig[k] < 0 /\ \E j \in 1..(k - 1) : sig[j] > 0})
          /\ (~\E j, k \in 1..Len(sig) : j < k /\ sig[j] > 0 /\ sig[k] < 0)
                => ret.value = NoTrades

\* a Buy, its Sell, and a second Buy left open at the end: one trade counted
C16_Witness ==
    /\ Called("calculate_win_rate")
    /\ call.signals = <<0, 1, -1, 1>>
    /\ ret.value.total_trades = 1

\* C17: every completed trade is exactly one of win (return > 0) or loss
\* (return <= 0), so winning_trades + losing_trades = total_trades and
\* win_rate = 100 * winning_trades / total_trades; one losing plus one
\* winning trade give win_rate 50.0 and total_trades 2.
C17_WinLossPartition ==
    (Called("calculate_win_rate") /\ ret.value.total_trades > 0) =>
      LET trade_returns == TradeReturns(call.signals, call.returns)
      IN  /\ \A t \in 1..Len(trade_returns) :
                FLt(Zero, trade_returns[t]) # FLe(trade_returns[t], Zero)
          /\ ret.value.winning_trades + ret.value.losing_trades = ret.value.total_trades
          /\ ret.value.win_rate = Rat(100 * ret.value.winning_trades, ret.value.total_trades)
          /\ (ret.value.total_trades = 2 /\ ret.value.winning_trades = 1
                /\ ret.value.losing_trades = 1) => ret.value.win_rate = FromInt(50)

\* the series a metric call was given has no entry
EmptyInput ==
    IF Called("calculate_win_rate") THEN Len(call.signals) = 0
    ELSE Len(call.portfolio_value) = 0

\* C18: every metrics function fails with InvalidSeriesError on an empty
\* series and raises no error on a non-empty one.
C18_InvalidSeriesError ==
    ~Called("none") =>
      IF EmptyInput THEN ret.raised = "InvalidSeriesError" ELSE ret.raised = None

\* C19: the aggregate summary holds final_value, total_return =
\* (final_value - initial_capital) / initial_capital * 100, max_drawdown,
\* cagr, sharpe_ratio, volatility and the trade statistics (win_rate and the
\* trade count).
C19_SummaryRecord ==
    (Called("calculate_metrics") /\ ret.raised = None) =>
      /\ {"final_value", "total_return", "max_drawdown", "cagr", "sharpe_ratio",
          "volatility", "win_rate", "total_trades"} \subseteq DOMAIN ret.value
      /\ ret.value.final_value = call.portfolio_value[Len(call.portfolio_value)]
      /\ ret.value.total_return =
            FMul(FDiv(FSub(ret.value.final_value, call.initial_capital),
                      call.initial_capital), FromInt(100))

\* the pairing of the specification: a positive signal while not in a trade
\* opens a trade at its index (index 0 included), later positive signals
\* leave the entry alone, the first negative signal after it closes it
RECURSIVE SpecPairs(_, _, _, _, _)
SpecPairs(sig, k, inTrade, entry, acc) ==
    IF k >= Len(sig) THEN acc
    ELSE IF sig[k + 1] > 0 /\ ~inTrade THEN SpecPairs(sig, k + 1, TRUE, k, acc)
    ELSE IF sig[k + 1] < 0 /\ inTrade
         THEN SpecPairs(sig, k + 1, FALSE, 0, Append(acc, <<entry, k>>))
    ELSE SpecPairs(sig, k + 1, inTrade, entry, acc)

\* C20: calculate_win_rate pairs signals left to right as SpecPairs does,
\* a trade's return is the sum of the returns over [entry, exit], and
\* total_trades is the number of those pairs.
C20_LeftToRightPairing ==
    Called("calculate_win_rate") =>
      LET pairs == SpecPairs(call.signals, 0, FALSE, 0, <<>>)
      IN  /\ ret.value.total_trades = Len(pairs)
          /\ ScanTrades(call.signals, 0, 0, <<>>) = pairs
          /\ TradeReturns(call.signals, call.returns) =
                [t \in 1..Len(pairs) |-> SumSkipNa(call.returns, pairs[t][1], pairs[t][2])]

\* the ledger columns of a row
LedgerOf(row) == <<row.cash, row.holdings, row.total>>

\* C21: a completed run over N >= 1 bars returns a ledger of exactly N
\* entries in input order (from line 45 on no step changes the number of
\* rows or their signal and close, and the frame returned is the frame
\* stored), and processing bar i changes no ledger entry of a bar j < i.
C21_LedgerAppendOnly ==
    [][(pc = "loop" /\ Len(df) >= 1) =>
        /\ Len(df') = Len(df)
        /\ InputOf(df') = InputOf(df)
        /\ \A k \in 1..Len(df) : k <= i => LedgerOf(df'[k]) = LedgerOf(df[k])
        /\ pc' = "returned" =>
              /\ results' = Stored(df)
              /\ Len(results'[1]) = Len(df)
              /\ i = Len(df)]_vars

\* a completed run of three bars whose bar 1 bought and whose bar 2 sold:
\* the entries of bars 0 and 1 still show the state before the sale
C21_Witness ==
    /\ pc = "returned"
    /\ ~Malformed(df)
    /\ Len(results[1]) = 3
    /\ results[1][1].cash = initial_capital
    /\ results[1][2].holdings # Zero
    /\ results[1][3].signal < 0
    /\ results[1][3].holdings = Zero
    /\ results[1][3].cash # results[1][2].cash

\* the ledger a run yields from cash c and quantity pos at row k on: the
\* loop of lines 47-73 replayed on the frame
RECURSIVE Replay(_, _, _, _)
Replay(frame, k, c, pos) ==
    IF k >= Len(frame) THEN frame
    ELSE LET price == frame[k + 1].close
             after == BarStep(c, pos, frame[k + 1].signal, price)
         IN  Replay([frame EXCEPT ![k + 1].holdings = RMul(FromInt(after.position), price),
                                  ![k + 1].cash     = after.cash,
                                  ![k + 1].total    = RAdd(after.cash,
                                                           RMul(FromInt(after.position), price))],
                    k + 1, after.cash, after.position)

\* the ledger a fresh Backtester with the same initial_capital and commission
\* returns for the input
FreshLedger(input) == Replay(NewFrame(input), 1, initial_capital, 0)

\* C23: a run on an instance that has completed a run starts again at
\* cash = initial_capital and quantity = 0, returns the ledger a fresh
\* instance returns for the same input, and replaces the stored results.
C23_RunScopedState ==
    [][(results # NoResults) =>
         /\ (pc = "returned" /\ pc' = "loop") =>
               (cash' = initial_capital /\ position' = 0 /\ results' = results)
         /\ (pc = "loop" /\ pc' = "returned") =>
               /\ df = FreshLedger(InputOf(df))
               /\ results' = Stored(df)]_vars

\* a second run, on other signals than the first, has processed its last bar
\* and traded, while the stored ledger of the first run ends holding shares
C23_Witness ==
    /\ pc = "loop"
    /\ results # NoResults
    /\ Len(results[1]) = Len(ScenarioCloses)
    /\ results[1][Len(results[1])].holdings # Zero
    /\ Len(df) = Len(ScenarioCloses)
    /\ i = Len(df)
    /\ InputOf(df) # InputOf(results[1])
    /\ cash # initial_capital

\* C24: the executed trades (bars at which shares change hands) alternate,
\* starting with a Buy: a Buy executes only while flat, which is the state at
\* the start and after an executed Sell; a Sell executes only while holding,
\* the state after an executed Buy, and leaves the engine flat; a bar that
\* executes no trade changes neither quantity nor cash.
C24_TradesAlternate ==
    [][/\ (pc # "loop" /\ pc' = "loop") => position' = 0
       /\ BarProcessed =>
            LET signal == df[i + 1].signal
                bought == signal > 0 /\ position' # position
                sold   == signal < 0 /\ position' # position
            IN  /\ bought => position = 0
                /\ sold => (position > 0 /\ position' = 0)
                /\ ~(bought \/ sold) => (position' = position /\ cash' = cash)]_vars

\* a run that bought at bar 1, ignored nothing and sold at bar 2 stands
\* after its last bar, flat again
C24_Witness ==
    /\ pc = "loop"
    /\ ~Malformed(df)
    /\ Len(df) = 3
    /\ i = 3
    /\ df[2].signal > 0
    /\ df[2].holdings # Zero
    /\ df[3].signal < 0
    /\ position = 0
    /\ commission = Zero

\* C25: at every bar i >= 1, cash[i] + quantity[i] * close[i] =
\* cash[i-1] + quantity[i-1] * close[i] - fee[i] with fee[i] = commission *
\* (shares traded at bar i) * close[i], 0 on a bar without a trade; the
\* entry of the bar records that cash and that total.
C25_CashConservation ==
    [][BarProcessed =>
         LET close  == df[i + 1].close
             traded == IF position = 0 THEN position' ELSE position - position'
             fee    == RMul(RMul(commission, FromInt(traded)), close)
         IN  /\ RAdd(cash', RMul(FromInt(position'), close)) =
                   RSub(RAdd(cash, RMul(FromInt(position), close)), fee)
             /\ position' = position => fee = Zero
             /\ commission = Zero =>
                   RAdd(cash', RMul(FromInt(position'), close)) =
                      RAdd(cash, RMul(FromInt(position), close))
             /\ df'[i + 1].cash = cash'
             /\ df'[i + 1].total = RAdd(cash', RMul(FromInt(position'), close))]_vars

\* a completed run under commission 0.1 that sold at the close it bought at:
\* the total fell by the fee of the sale
C25_Witness ==
    /\ pc = "returned"
    /\ commission = <<1, 10>>
    /\ Len(df) = 3
    /\ df[2].close = df[3].close
    /\ RLt(Zero, df[2].close)
    /\ df[2].holdings # Zero
    /\ df[3].holdings = Zero
    /\ RLt(df[3].total, df[2].total)

\* the round trips <<entry, exit>> (0-based bars) a run executes on a frame:
\* the bar of each Buy that took shares and the bar of the Sell that
\* returned them
RECURSIVE RoundTrips(_, _, _, _, _, _)
RoundTrips(frame, k, c, pos, entry, acc) ==
    IF k >= Len(frame) THEN acc
    ELSE LET signal == frame[k + 1].signal
             after  == BarStep(c, pos, signal, frame[k + 1].close)
         IN  IF IsSell(signal, pos)
             THEN RoundTrips(frame, k + 1, after.cash, after.position, 0,
                             Append(acc, <<entry, k>>))
             ELSE RoundTrips(frame, k + 1, after.cash, after.position,
                             IF IsBuy(signal, pos) THEN k ELSE entry, acc)

\* C26: the trades calculate_win_rate reconstructs from the signals of a run
\* are the round trips the run executed: total_trades is the number of
\* executed Sells, and each window is <<bar of the Buy, bar of the Sell>>.
C26_WinRateTradesAreEngineTrades ==
    pc = "returned" =>
      LET signals == [k \in 1..Len(df) |-> df[k].signal]
          returns == PctChange([k \in 1..Len(df) |-> df[k].total])
          trips   == RoundTrips(df, 1, initial_capital, 0, 0, <<>>)
      IN  /\ calculate_win_rate(signals, returns).value.total_trades = Len(trips)
          /\ ScanTrades(signals, 0, 0, <<>>) = trips

\* the metrics a Backtester of its own yields for the signals on the data
FreshMetrics(signals) ==
    LET ledger == FreshLedger([k \in 1..Len(data) |->
                                  [signal |-> signals[k], close |-> data[k]]])
    IN  Summary(Stored(ledger))

\* C22: the metrics of an evaluation depend on nothing but the strategy and
\* the data: whatever was evaluated before and whatever the history holds,
\* an evaluation appends the metrics a Backtester of its own yields for that
\* strategy, the metrics every earlier entry of a strategy with the same
\* signals carries, and leaves the earlier entries as they are.
C22_EvaluationsIndependent ==
    [][(pc = "returned" /\ pc' = "idle"
          /\ optimization_history' # optimization_history) =>
         LET n == Len(optimization_history')
             e == optimization_history'[n]
         IN  /\ n = Len(optimization_history) + 1
             /\ e.parameters = call.parameters
             /\ e.metrics = FreshMetrics(strategies[e.parameters]).value
             /\ \A a \in 1..Len(optimization_history) :
                   /\ optimization_history'[a] = optimization_history[a]
                   /\ strategies[optimization_history[a].parameters] =
                         strategies[e.parameters]
                      => optimization_history[a].metrics = e.metrics]_vars

\* two evaluations on three bars: the first strategy bought at bar 1 and
\* still held at the end, the second one traded differently
C22_Witness ==
    /\ Len(optimization_history) = 2
    /\ Len(data) = 3
    /\ optimization_history[1].parameters # optimization_history[2].parameters
    /\ strategies[optimization_history[1].parameters] = <<0, 1, 0>>
    /\ optimization_history[1].metrics # optimization_history[2].metrics
    /\ optimization_history[2].metrics.final_value # initial_capital

====
